---- MODULE Spec2Model ----
(***************************************************************************)
(* Model of the nsight runtime-env plugin                                  *)
(* (python/ray/_private/runtime_env/nsight.py): the config translator      *)
(* (parse_nsight_config, check_nsight_script) and the NsightPlugin         *)
(* lifecycle (create, modify_context, delete_uri); and of the image tags   *)
(* of DockerContainer (ci/ray_ci/docker_container.py).                     *)
(*                                                                         *)
(* Python strings are TLA+ strings; a dict is the sequence of its          *)
(* <<key, value>> items in insertion order; a list is a sequence.          *)
(***************************************************************************)
EXTENDS Integers, Sequences, FiniteSets, TLC

VARIABLES
    NSIGHT_DEFEAULT_CONFIG, \* the module-level default dict (mutable object)
    nsight_cmd,             \* self.nsight_cmd, per plugin instance
    self_resources_dir,     \* self._resources_dir, per plugin instance
    self_logs_dir,          \* self._logs_dir, per plugin instance
    py_executable,          \* context.py_executable, one context per instance
    runtime_env,            \* the caller's runtime_env["nsight"] object after the last create
    create_result,          \* outcome of the last create call
    ctx_cmd,                \* the command the last modify_context read, per instance
    fs,                     \* the URI directories on disk: path -> size in bytes
    d_pc,                   \* position of each delete_uri call
    d_dir,                  \* local_dir of each delete_uri call
    d_size,                 \* local_dir_size of each delete_uri call
    d_ret,                  \* value returned by each delete_uri call
    d_pre,                  \* what was on disk at local_dir when the call started
    d_mode,                 \* what else ran during the call: "quiet" (nothing), "beside"
                            \* (only calls on other directories), "disturbed" (another
                            \* call on, or a materialisation of, its own directory)
    render_in,              \* argument of parse_nsight_config (translator specification)
    render_out,             \* its result
    self_python_version,    \* DockerContainer: self.python_version
    self_platform,          \* self.platform
    self_image_type,        \* self.image_type
    os_environ,             \* os.environ: the variables that are set, name -> value
    image_tags,             \* result of the last _get_image_tags call
    canonical_tag           \* result of the last _get_canonical_tag call

plugin_vars == <<NSIGHT_DEFEAULT_CONFIG, nsight_cmd, self_resources_dir, self_logs_dir,
                 py_executable, runtime_env, create_result, ctx_cmd>>
delete_vars == <<fs, d_pc, d_dir, d_size, d_ret, d_pre, d_mode>>
render_vars == <<render_in, render_out>>
tag_vars == <<self_python_version, self_platform, self_image_type, os_environ,
              image_tags, canonical_tag>>
vars == <<plugin_vars, delete_vars, render_vars, tag_vars>>

-----------------------------------------------------------------------------
(* Bounds of the model *)

\* longest configuration mapping drawn for the translator specification
MaxOpts == 2
\* largest directory size, in bytes
MaxSize == 1
\* number of threads that may run delete_uri at the same time
NumThreads == 2

Instances == {"p1", "p2"}
Threads == 1..NumThreads
\* a materialised directory holds at least one byte
Sizes == 1..MaxSize
URIs == {"pkg_a", "pkg_b"}

-----------------------------------------------------------------------------
(* Python string and dict primitives *)

\* s[:n]
Slice(s, n) == SubSeq(s, 1, IF Len(s) < n THEN Len(s) ELSE n)

Whitespace == {" ", "\n", "\t"}

RECURSIVE lstrip(_)
lstrip(s) == IF s # "" /\ Head(s) \in Whitespace THEN lstrip(Tail(s)) ELSE s

RECURSIVE rstrip(_)
rstrip(s) ==
    IF s # "" /\ SubSeq(s, Len(s), Len(s)) \in Whitespace
    THEN rstrip(SubSeq(s, 1, Len(s) - 1))
    ELSE s

\* str.strip()
strip(s) == rstrip(lstrip(s))

\* sub in s
Contains(s, sub) ==
    \E i \in 1..(Len(s) - Len(sub) + 1) : SubSeq(s, i, i + Len(sub) - 1) = sub

\* " ".join(tokens)
RECURSIVE join(_)
join(tokens) ==
    IF tokens = <<>> THEN ""
    ELSE IF Len(tokens) = 1 THEN tokens[1]
    ELSE tokens[1] \o " " \o join(Tail(tokens))

dict_has(d, key) == \E i \in 1..Len(d) : d[i][1] = key

\* d.get(key, default)
dict_get(d, key, default) ==
    IF dict_has(d, key)
    THEN d[CHOOSE i \in 1..Len(d) : d[i][1] = key][2]
    ELSE default

\* an assignment that moves the key to the end
dict_set_moves_last(d, key, val) ==
    Append(SelectSeq(d, LAMBDA item : item[1] # key), <<key, val>>)

\* d[key] = val: an existing key keeps its position, a new key goes last
dict_set(d, key, val) ==
    IF dict_has(d, key)
    THEN [i \in 1..Len(d) |-> IF d[i][1] = key THEN <<key, val>> ELSE d[i]]
    ELSE Append(d, <<key, val>>)

\* s.rfind("/"), 0 when there is none (positions from 1)
RECURSIVE rfind_slash(_, _)
rfind_slash(s, i) ==
    IF i = 0 THEN 0
    ELSE IF SubSeq(s, i, i) = "/" THEN i
    ELSE rfind_slash(s, i - 1)

RECURSIVE rstrip_slash(_)
rstrip_slash(s) ==
    IF s # "" /\ SubSeq(s, Len(s), Len(s)) = "/"
    THEN rstrip_slash(SubSeq(s, 1, Len(s) - 1))
    ELSE s

\* os.path.split(p)[0]
os_path_split_head(p) ==
    LET i == rfind_slash(p, Len(p))
        head == SubSeq(p, 1, i)
    IN IF rstrip_slash(head) = "" THEN head ELSE rstrip_slash(head)

\* os.path.join(a, b)
os_path_join(a, b) ==
    IF b # "" /\ Head(b) = "/" THEN b
    ELSE IF a = "" \/ SubSeq(a, Len(a), Len(a)) = "/" THEN a \o b
    ELSE a \o "/" \o b

-----------------------------------------------------------------------------
(* Config translator *)

DefaultConfig ==
    << <<"-t", "cuda,cudnn,cublas,nvtx">>,
       <<"-o", "'worker_process_%p'">>,
       <<"--cudabacktrace", "all">>,
       <<"--stop-on-exit", "true">> >>

\* the for loop of parse_nsight_config; option[0] of an empty key raises
RECURSIVE parse_loop(_, _)
parse_loop(cmd, items) ==
    IF items = <<>> THEN [exc |-> "", value |-> cmd]
    ELSE LET option == items[1][1]
             option_val == items[1][2]
         IN IF Slice(option, 2) = "--"
            THEN parse_loop(Append(cmd, option \o "=" \o option_val), Tail(items))
            ELSE IF option = ""
            THEN [exc |-> "IndexError", value |-> <<>>]
            ELSE IF Head(option) = "-"
            THEN parse_loop(cmd \o <<option, option_val>>, Tail(items))
            ELSE parse_loop(cmd, Tail(items))

\* a translator that writes short options in the long form too
parse_all_joined(nsight_config) ==
    [exc |-> "",
     value |-> <<"nsys", "profile">> \o
               [i \in 1..Len(nsight_config) |->
                   nsight_config[i][1] \o "=" \o nsight_config[i][2]]]

\* a translator without the branch for short options
parse_long_only(nsight_config) ==
    LET long == SelectSeq(nsight_config, LAMBDA item : Slice(item[1], 2) = "--")
    IN [exc |-> "",
        value |-> <<"nsys", "profile">> \o
                  [i \in 1..Len(long) |-> long[i][1] \o "=" \o long[i][2]]]

parse_nsight_config(nsight_config) == parse_loop(<<"nsys", "profile">>, nsight_config)

-----------------------------------------------------------------------------
(* The external profiler tool, as subprocess.run sees it *)

ToolOk == [found |-> TRUE, returncode |-> 0, stderr |-> "", stdout |-> ""]
ToolMissing == [found |-> FALSE, returncode |-> 0, stderr |-> "", stdout |-> ""]
ToolRejects ==
    [found : {TRUE}, returncode : {1},
     stderr : {"", "\n", "unknown option", "unknown option\n"},
     stdout : {"", "usage: nsys\n"}]
ToolOutcomes == {ToolOk, ToolMissing} \cup ToolRejects

\* recorded when a create call starts no subprocess
NoTool == [found |-> FALSE, returncode |-> 0, stderr |-> "-", stdout |-> "-"]

\* a validation that looks at the standard output first
check_prefers_stdout(nsight_config, tool) ==
    LET nsight_config_copy == dict_set(nsight_config, "-o", "empty")
        parsed == parse_nsight_config(nsight_config_copy)
        argv == parsed.value \o <<"python", "-c", "\"\"">>
        base == [exc |-> "", valid |-> FALSE, error_msg |-> "", tool_calls |-> 1,
                 argv |-> argv, nsight_config |-> nsight_config]
    IN IF parsed.exc # ""
       THEN [base EXCEPT !.exc = parsed.exc, !.tool_calls = 0, !.argv = <<>>]
       ELSE IF ~tool.found
       THEN [base EXCEPT !.error_msg = "nsight is not installed"]
       ELSE IF tool.returncode = 0
       THEN [base EXCEPT !.valid = TRUE]
       ELSE [base EXCEPT !.error_msg =
                IF strip(tool.stdout) # "" THEN strip(tool.stdout) ELSE strip(tool.stderr)]

\* a validation that takes any run of the tool for a success
check_ignores_returncode(nsight_config, tool) ==
    LET nsight_config_copy == dict_set(nsight_config, "-o", "empty")
        parsed == parse_nsight_config(nsight_config_copy)
        argv == parsed.value \o <<"python", "-c", "\"\"">>
        base == [exc |-> "", valid |-> FALSE, error_msg |-> "", tool_calls |-> 1,
                 argv |-> argv, nsight_config |-> nsight_config]
    IN IF parsed.exc # ""
       THEN [base EXCEPT !.exc = parsed.exc, !.tool_calls = 0, !.argv = <<>>]
       ELSE [base EXCEPT !.valid = TRUE]

\* a validation that overrides the output path in the caller's mapping
check_without_copy(nsight_config, tool) ==
    LET nsight_config_copy == dict_set(nsight_config, "-o", "empty")
        parsed == parse_nsight_config(nsight_config_copy)
        argv == parsed.value \o <<"python", "-c", "\"\"">>
        base == [exc |-> "", valid |-> FALSE, error_msg |-> "", tool_calls |-> 1,
                 argv |-> argv, nsight_config |-> nsight_config_copy]
    IN IF parsed.exc # ""
       THEN [base EXCEPT !.exc = parsed.exc, !.tool_calls = 0, !.argv = <<>>]
       ELSE IF ~tool.found
       THEN [base EXCEPT !.error_msg = "nsight is not installed"]
       ELSE IF tool.returncode = 0
       THEN [base EXCEPT !.valid = TRUE]
       ELSE [base EXCEPT !.error_msg =
                IF strip(tool.stderr) # "" THEN strip(tool.stderr) ELSE strip(tool.stdout)]

\* a validation that runs the tool a second time when the first run fails
check_runs_again(nsight_config, tool) ==
    LET nsight_config_copy == dict_set(nsight_config, "-o", "empty")
        parsed == parse_nsight_config(nsight_config_copy)
        argv == parsed.value \o <<"python", "-c", "\"\"">>
        base == [exc |-> "", valid |-> FALSE, error_msg |-> "", tool_calls |-> 1,
                 argv |-> argv, nsight_config |-> nsight_config]
    IN IF parsed.exc # ""
       THEN [base EXCEPT !.exc = parsed.exc, !.tool_calls = 0, !.argv = <<>>]
       ELSE IF ~tool.found
       THEN [base EXCEPT !.error_msg = "nsight is not installed", !.tool_calls = 2]
       ELSE IF tool.returncode = 0
       THEN [base EXCEPT !.valid = TRUE]
       ELSE [base EXCEPT !.tool_calls = 2, !.error_msg =
                IF strip(tool.stderr) # "" THEN strip(tool.stderr) ELSE strip(tool.stdout)]

\* check_nsight_script: (valid, error_msg), the command line handed to
\* subprocess.run, how many times it was called, and the caller's mapping as
\* the call leaves it (the override goes to a deep copy).  error_msg is None,
\* written "", on success.
check_nsight_script(nsight_config, tool) ==
    LET nsight_config_copy == dict_set(nsight_config, "-o", "empty")
        parsed == parse_nsight_config(nsight_config_copy)
        argv == parsed.value \o <<"python", "-c", "\"\"">>
        base == [exc |-> "", valid |-> FALSE, error_msg |-> "", tool_calls |-> 1,
                 argv |-> argv, nsight_config |-> nsight_config]
    IN IF parsed.exc # ""
       THEN [base EXCEPT !.exc = parsed.exc, !.tool_calls = 0, !.argv = <<>>]
       ELSE IF ~tool.found
       THEN [base EXCEPT !.error_msg = "nsight is not installed"]
       ELSE IF tool.returncode = 0
       THEN [base EXCEPT !.valid = TRUE]
       ELSE [base EXCEPT !.error_msg =
                IF strip(tool.stderr) # "" THEN strip(tool.stderr) ELSE strip(tool.stdout)]

-----------------------------------------------------------------------------
(* Values of runtime_env.get("nsight") *)

EnvNone == [kind |-> "none", str |-> "", items |-> <<>>]
EnvStr(s) == [kind |-> "str", str |-> s, items |-> <<>>]
EnvDict(d) == [kind |-> "dict", str |-> "", items |-> d]

\* Python truthiness: None, "" and {} are falsy
truthy(env) ==
    CASE env.kind = "none" -> FALSE
      [] env.kind = "str" -> env.str # ""
      [] OTHER -> env.items # <<>>

RuntimeEnvs ==
    { EnvNone, EnvStr(""), EnvDict(<<>>), EnvStr("default"), EnvStr("garbage"),
      EnvDict(<< <<"--cuda-stats", "on">>, <<"-o", "run1">> >>),
      EnvDict(<< <<"-t", "cuda">> >>),
      EnvDict(<< <<"", "x">> >>) }

UnsupportedMsg(s) ==
    "Unsupported nsight config: " \o s \o ". " \o
    "The supported config is 'default' or " \o "Dictionary of nsight options"

FailedMsg(error_msg) ==
    "nsight profile failed to run with the following " \o "error message:\n " \o error_msg

\* a resolution that falls back to the default mapping for any string
resolve_any_string_is_default(dflt, env) ==
    IF env.kind = "str"
    THEN [exc |-> "", msg |-> "", nsight_config |-> dflt, is_default |-> TRUE]
    ELSE [exc |-> "", msg |-> "", nsight_config |-> env.items, is_default |-> FALSE]

\* create, the isinstance(nsight_config, str) block: the mapping create goes on
\* with (the module-level default object itself for "default"), or the raise
resolve_config(dflt, env) ==
    IF env.kind = "str"
    THEN IF env.str = "default"
         THEN [exc |-> "", msg |-> "", nsight_config |-> dflt, is_default |-> TRUE]
         ELSE [exc |-> "RuntimeError", msg |-> UnsupportedMsg(env.str),
               nsight_config |-> <<>>, is_default |-> FALSE]
    ELSE [exc |-> "", msg |-> "", nsight_config |-> env.items, is_default |-> FALSE]

\* NsightPlugin.create as a function of what it reads: self.nsight_cmd, the
\* module-level default mapping, runtime_env.get("nsight") and the tool's
\* behaviour.  The result says how the call ended and what it left in
\* self.nsight_cmd, in the caller's object and in the module-level mapping;
\* validated is the mapping handed to check_nsight_script as that call left it.
create_call(cmd, dflt, env, tool) ==
    LET unchanged == [status |-> "raised", ret |-> 0, exc |-> "", msg |-> "",
                      nsight_cmd |-> cmd, runtime_env |-> env, default |-> dflt,
                      tool_calls |-> 0, argv |-> <<>>, validated |-> <<>>]
        cfg == resolve_config(dflt, env)
        chk == check_nsight_script(cfg.nsight_config, tool)
        checked == [unchanged EXCEPT !.tool_calls = chk.tool_calls, !.argv = chk.argv,
                       !.validated = chk.nsight_config,
                       !.runtime_env = IF cfg.is_default THEN env
                                       ELSE EnvDict(chk.nsight_config),
                       !.default = IF cfg.is_default THEN chk.nsight_config ELSE dflt]
        output == dict_get(chk.nsight_config, "-o", dict_get(dflt, "-o", ""))
        final == dict_set(chk.nsight_config, "-o", output)
    IN IF ~truthy(env)
       THEN [unchanged EXCEPT !.status = "returned"]
       ELSE IF cfg.exc # ""
       THEN [unchanged EXCEPT !.exc = cfg.exc, !.msg = cfg.msg]
       ELSE IF chk.exc # ""
       THEN [checked EXCEPT !.exc = chk.exc]
       ELSE IF ~chk.valid
       THEN [checked EXCEPT !.exc = "RuntimeError", !.msg = FailedMsg(chk.error_msg)]
       ELSE [checked EXCEPT !.status = "returned",
                !.nsight_cmd = parse_nsight_config(final).value,
                !.runtime_env = IF cfg.is_default THEN env ELSE EnvDict(final),
                !.default = IF cfg.is_default THEN final ELSE dflt]

-----------------------------------------------------------------------------
(* NsightPlugin *)

\* the resources_dir argument each instance is constructed with
ResourcesDirArg == [i \in Instances |-> "/sess/runtime_resources"]

\* __init__
init_resources_dir(resources_dir) == os_path_join(resources_dir, "nsight")
init_logs_dir(resources_dir) == os_path_split_head(resources_dir) \o "/logs/nsight"

NoResult ==
    [inst |-> "", config |-> EnvNone, tool |-> NoTool, status |-> "none", ret |-> 0,
     exc |-> "", msg |-> "", tool_calls |-> 0, argv |-> <<>>, validated |-> <<>>]

\* create on instance i, called with runtime_env.get("nsight") = env while the
\* profiler tool behaves as tool
create_with(i, env, tool) ==
    \E r \in {create_call(nsight_cmd[i], NSIGHT_DEFEAULT_CONFIG, env, tool)} :
        /\ nsight_cmd' = [nsight_cmd EXCEPT ![i] = r.nsight_cmd]
        /\ NSIGHT_DEFEAULT_CONFIG' = r.default
        /\ runtime_env' = r.runtime_env
        /\ create_result' =
              [inst |-> i, config |-> env,
               tool |-> IF r.tool_calls = 0 THEN NoTool ELSE tool,
               status |-> r.status, ret |-> r.ret, exc |-> r.exc, msg |-> r.msg,
               tool_calls |-> r.tool_calls, argv |-> r.argv,
               validated |-> r.validated]
        /\ UNCHANGED <<self_resources_dir, self_logs_dir, py_executable, ctx_cmd>>
        /\ UNCHANGED <<delete_vars, render_vars, tag_vars>>

\* the tool's behaviour is an input only of a call that reaches the validation
reaches_validation(env) ==
    truthy(env) /\ (env.kind = "str" => env.str = "default")

create(i) ==
    \E env \in RuntimeEnvs :
        \E tool \in IF reaches_validation(env) THEN ToolOutcomes ELSE {ToolOk} :
            create_with(i, env, tool)

\* a prefix that glues the interpreter to the last token
context_prefix_glued(cmd) == join(cmd) \o "python"

\* the string modify_context writes
context_prefix(cmd) == join(cmd) \o " python"

modify_context(i) ==
    /\ py_executable' = [py_executable EXCEPT ![i] = context_prefix(nsight_cmd[i])]
    /\ ctx_cmd' = [ctx_cmd EXCEPT ![i] = [called |-> TRUE, cmd |-> nsight_cmd[i]]]
    /\ UNCHANGED <<NSIGHT_DEFEAULT_CONFIG, nsight_cmd, self_resources_dir, self_logs_dir,
                   runtime_env, create_result>>
    /\ UNCHANGED <<delete_vars, render_vars, tag_vars>>

-----------------------------------------------------------------------------
(* The packaging and directory helpers delete_uri calls, over the disk fs *)

\* get_local_dir_from_uri(uri, base_directory): one directory per URI
get_local_dir_from_uri(uri, base_directory) == os_path_join(base_directory, uri)

\* get_directory_size_bytes(path): 0 for a path that does not exist
get_directory_size_bytes(disk, path) == IF path \in DOMAIN disk THEN disk[path] ELSE 0

remove_dir(disk, path) == [p \in (DOMAIN disk) \ {path} |-> disk[p]]

\* delete_package(uri, base_directory): true iff something was deleted
delete_package(disk, uri, base_directory) ==
    LET path == get_local_dir_from_uri(uri, base_directory)
    IN [deleted |-> path \in DOMAIN disk, disk |-> remove_dir(disk, path)]

-----------------------------------------------------------------------------
(* NsightPlugin.delete_uri, in two steps: measure, then delete and return *)

InFlight(t) == d_pc[t] = "measured"
HasReturned(t) == d_pc[t] = "returned"

\* a return that reports the measurement whether or not anything was deleted
delete_uri_return_measured(deleted, local_dir_size) == local_dir_size

\* a return statement with the test the wrong way round
delete_uri_return_inverted(deleted, local_dir_size) ==
    IF deleted THEN 0 ELSE local_dir_size

\* the value delete_uri returns
delete_uri_return(deleted, local_dir_size) ==
    IF ~deleted THEN 0 ELSE local_dir_size

\* logger.info, get_local_dir_from_uri, get_directory_size_bytes
delete_uri_measure(t) ==
    /\ ~InFlight(t)
    /\ \E i \in Instances, uri \in URIs :
          LET local_dir == get_local_dir_from_uri(uri, self_resources_dir[i])
              same == {o \in Threads \ {t} : InFlight(o) /\ d_dir[o].local_dir = local_dir}
              other == {o \in Threads \ {t} : InFlight(o) /\ d_dir[o].local_dir # local_dir}
          IN /\ d_dir' = [d_dir EXCEPT ![t] =
                    [uri |-> uri, root |-> self_resources_dir[i], local_dir |-> local_dir]]
             /\ d_size' = [d_size EXCEPT ![t] = get_directory_size_bytes(fs, local_dir)]
             /\ d_pre' = [d_pre EXCEPT ![t] =
                    [present |-> local_dir \in DOMAIN fs,
                     size |-> IF local_dir \in DOMAIN fs THEN fs[local_dir] ELSE 0]]
             /\ d_mode' = [o \in Threads |->
                    IF o = t
                    THEN (IF same # {} THEN "disturbed"
                          ELSE IF other # {} THEN "beside" ELSE "quiet")
                    ELSE IF o \in same THEN "disturbed"
                    ELSE IF o \in other /\ d_mode[o] = "quiet" THEN "beside"
                    ELSE d_mode[o]]
    /\ d_pc' = [d_pc EXCEPT ![t] = "measured"]
    /\ d_ret' = [d_ret EXCEPT ![t] = 0]
    /\ UNCHANGED fs
    /\ UNCHANGED <<plugin_vars, render_vars, tag_vars>>

\* a delete step that clears the whole resources directory
delete_uri_delete_all(t) ==
    /\ InFlight(t)
    /\ LET r == delete_package(fs, d_dir[t].uri, d_dir[t].root)
       IN /\ fs' = [p \in {} |-> 0]
          /\ d_ret' = [d_ret EXCEPT ![t] = delete_uri_return(r.deleted, d_size[t])]
    /\ d_pc' = [d_pc EXCEPT ![t] = "returned"]
    /\ UNCHANGED <<d_dir, d_size, d_pre, d_mode>>
    /\ UNCHANGED <<plugin_vars, render_vars, tag_vars>>

\* a delete step that also resets the instance's stored command
delete_uri_delete_resets_cmd(t) ==
    /\ InFlight(t)
    /\ LET r == delete_package(fs, d_dir[t].uri, d_dir[t].root)
       IN /\ fs' = r.disk
          /\ d_ret' = [d_ret EXCEPT ![t] = delete_uri_return(r.deleted, d_size[t])]
    /\ d_pc' = [d_pc EXCEPT ![t] = "returned"]
    /\ nsight_cmd' = [i \in Instances |-> <<>>]
    /\ UNCHANGED <<d_dir, d_size, d_pre, d_mode>>
    /\ UNCHANGED <<NSIGHT_DEFEAULT_CONFIG, self_resources_dir, self_logs_dir,
                   py_executable, runtime_env, create_result, ctx_cmd, render_vars, tag_vars>>

\* a delete step that measures the directory after the deletion
delete_uri_delete_then_measure(t) ==
    /\ InFlight(t)
    /\ LET r == delete_package(fs, d_dir[t].uri, d_dir[t].root)
       IN /\ fs' = r.disk
          /\ d_ret' = [d_ret EXCEPT ![t] =
                delete_uri_return(r.deleted,
                                  get_directory_size_bytes(r.disk, d_dir[t].local_dir))]
    /\ d_pc' = [d_pc EXCEPT ![t] = "returned"]
    /\ UNCHANGED <<d_dir, d_size, d_pre, d_mode>>
    /\ UNCHANGED <<plugin_vars, render_vars, tag_vars>>

\* delete_package, the warning and the return
delete_uri_delete(t) ==
    /\ InFlight(t)
    /\ LET r == delete_package(fs, d_dir[t].uri, d_dir[t].root)
       IN /\ fs' = r.disk
          /\ d_ret' = [d_ret EXCEPT ![t] = delete_uri_return(r.deleted, d_size[t])]
    /\ d_pc' = [d_pc EXCEPT ![t] = "returned"]
    /\ UNCHANGED <<d_dir, d_size, d_pre, d_mode>>
    /\ UNCHANGED <<plugin_vars, render_vars, tag_vars>>

\* the packaging subsystem materialises a URI's directory, of some size
materialise(uri, size) ==
    \E i \in Instances :
        LET local_dir == get_local_dir_from_uri(uri, self_resources_dir[i])
        IN /\ local_dir \notin DOMAIN fs
           /\ fs' = [p \in (DOMAIN fs) \cup {local_dir} |->
                        IF p = local_dir THEN size ELSE fs[p]]
           /\ d_mode' = [o \in Threads |->
                  IF InFlight(o) /\ d_dir[o].local_dir = local_dir
                  THEN "disturbed" ELSE d_mode[o]]
           /\ UNCHANGED <<d_pc, d_dir, d_size, d_ret, d_pre>>
           /\ UNCHANGED <<plugin_vars, render_vars, tag_vars>>

-----------------------------------------------------------------------------
(* The translator on its own: parse_nsight_config applied to a drawn mapping *)

RenderKeys == {"--cuda-stats", "-o", "-t", "t", "--a=b", ""}
RenderVals == {"on", "run1"}

\* the mappings of at most MaxOpts options (a dict has no key twice)
RenderConfigs ==
    {d \in UNION {[1..n -> RenderKeys \X RenderVals] : n \in 0..MaxOpts} :
        \A i, j \in 1..Len(d) : i # j => d[i][1] # d[j][1]}

NotRendered == [exc |-> "", value |-> <<>>]

render ==
    /\ render_out = NotRendered
    /\ render_out' = parse_nsight_config(render_in)
    /\ UNCHANGED render_in
    /\ UNCHANGED <<plugin_vars, delete_vars, tag_vars>>

-----------------------------------------------------------------------------
(* DockerContainer: the tags of the image it builds *)

GPU_PLATFORM == "cu118"
DEFAULT_PYTHON_VERSION == "py38"

\* the length of the sha tag: os.environ["BUILDKITE_COMMIT"][:6]
ShaTagLen == 6

PythonVersions == {"py38", "py39"}
Platforms == {"cpu", "cu118", "cu117"}
ImageTypes == {"ray", "ray-ml"}
Branches == {"", "master", "releases/2.7.0", "fix-tags"}
Commits == {"a1b2c3d4e5f6", "0f9e8d7c"}

\* BUILDKITE_COMMIT is set to a commit id; BUILDKITE_BRANCH may be unset
Environs ==
    {[n \in {"BUILDKITE_COMMIT"} |-> c] : c \in Commits} \cup
    {[n \in {"BUILDKITE_COMMIT", "BUILDKITE_BRANCH"} |->
         IF n = "BUILDKITE_COMMIT" THEN c ELSE b] : c \in Commits, b \in Branches}

\* os.environ.get(name): None when the variable is not set
os_environ_get(environ, name) ==
    IF name \in DOMAIN environ
    THEN [is_none |-> FALSE, str |-> environ[name]]
    ELSE [is_none |-> TRUE, str |-> ""]

\* s.startswith(prefix)
startswith(s, prefix) == Slice(s, Len(prefix)) = prefix

\* _get_image_version_tags
get_image_version_tags(environ) ==
    LET branch == os_environ_get(environ, "BUILDKITE_BRANCH")
        sha_tag == Slice(environ["BUILDKITE_COMMIT"], ShaTagLen)
    IN IF ~branch.is_none /\ branch.str = "master"
       THEN <<sha_tag, "nightly">>
       ELSE IF ~branch.is_none /\ branch.str # "" /\ startswith(branch.str, "releases/")
       THEN LET release_name ==
                    SubSeq(branch.str, Len("releases/") + 1, Len(branch.str))
            IN <<release_name \o "." \o sha_tag>>
       ELSE <<sha_tag>>

\* a tag with the platform before the python version
image_tag_platform_first(version, py_version, platform) ==
    version \o platform \o py_version

\* tag = f"{version}{py_version}{platform}"
image_tag(version, py_version, platform) == version \o py_version \o platform

\* _get_image_tags: the three nested loops append one tag per version, platform
\* and python version, in that order of nesting
get_image_tags(python_version, platform, image_type, environ) ==
    LET versions == get_image_version_tags(environ)
        platforms ==
            <<"-" \o platform>> \o
            (IF platform = "cpu" /\ image_type = "ray" THEN <<"">>
             ELSE IF platform = GPU_PLATFORM
             THEN <<"-gpu">> \o (IF image_type = "ray-ml" THEN <<"">> ELSE <<>>)
             ELSE <<>>)
        py_versions ==
            <<"-" \o python_version>> \o
            (IF python_version = DEFAULT_PYTHON_VERSION THEN <<"">> ELSE <<>>)
        P == Len(platforms)
        Y == Len(py_versions)
    IN [k \in 1..(Len(versions) * P * Y) |->
          image_tag(versions[((k - 1) \div (P * Y)) + 1],
                    py_versions[((k - 1) % Y) + 1],
                    platforms[(((k - 1) \div Y) % P) + 1])]

NoTags == [called |-> FALSE, exc |-> "", value |-> <<>>]
NoTag == [called |-> FALSE, exc |-> "", value |-> ""]

\* a call of _get_image_tags
call_get_image_tags ==
    /\ image_tags' =
          [called |-> TRUE, exc |-> "",
           value |-> get_image_tags(self_python_version, self_platform,
                                    self_image_type, os_environ)]
    /\ UNCHANGED <<self_python_version, self_platform, self_image_type, os_environ,
                   canonical_tag>>
    /\ UNCHANGED <<plugin_vars, delete_vars, render_vars>>

\* _get_canonical_tag: self._get_image_tags()[0]
call_get_canonical_tag ==
    /\ \E tags \in {get_image_tags(self_python_version, self_platform,
                                    self_image_type, os_environ)} :
          canonical_tag' =
              IF tags = <<>>
              THEN [called |-> TRUE, exc |-> "IndexError", value |-> ""]
              ELSE [called |-> TRUE, exc |-> "", value |-> tags[1]]
    /\ UNCHANGED <<self_python_version, self_platform, self_image_type, os_environ,
                   image_tags>>
    /\ UNCHANGED <<plugin_vars, delete_vars, render_vars>>

-----------------------------------------------------------------------------
(* Specifications *)

NoDir == [uri |-> "", root |-> "", local_dir |-> ""]
NoPre == [present |-> FALSE, size |-> 0]

InitPlugin ==
    /\ NSIGHT_DEFEAULT_CONFIG = DefaultConfig
    /\ nsight_cmd = [i \in Instances |-> <<>>]
    /\ self_resources_dir = [i \in Instances |-> init_resources_dir(ResourcesDirArg[i])]
    /\ self_logs_dir = [i \in Instances |-> init_logs_dir(ResourcesDirArg[i])]
    /\ py_executable = [i \in Instances |-> "python"]
    /\ runtime_env = EnvNone
    /\ create_result = NoResult
    /\ ctx_cmd = [i \in Instances |-> [called |-> FALSE, cmd |-> <<>>]]

InitDelete ==
    /\ fs = [p \in {} |-> 0]
    /\ d_pc = [t \in Threads |-> "idle"]
    /\ d_dir = [t \in Threads |-> NoDir]
    /\ d_size = [t \in Threads |-> 0]
    /\ d_ret = [t \in Threads |-> 0]
    /\ d_pre = [t \in Threads |-> NoPre]
    /\ d_mode = [t \in Threads |-> "quiet"]

\* no DockerContainer is in use
InitNoContainer ==
    /\ self_python_version = DEFAULT_PYTHON_VERSION
    /\ self_platform = "cpu"
    /\ self_image_type = "ray"
    /\ os_environ = [n \in {"BUILDKITE_COMMIT"} |-> "a1b2c3d4e5f6"]
    /\ image_tags = NoTags
    /\ canonical_tag = NoTag

Init ==
    /\ InitPlugin
    /\ InitDelete
    /\ render_in = <<>>
    /\ render_out = NotRendered
    /\ InitNoContainer

\* DockerContainer.__init__ with any arguments, in any build environment
InitTags ==
    /\ InitPlugin
    /\ InitDelete
    /\ render_in = <<>>
    /\ render_out = NotRendered
    /\ self_python_version \in PythonVersions
    /\ self_platform \in Platforms
    /\ self_image_type \in ImageTypes
    /\ os_environ \in Environs
    /\ image_tags = NoTags
    /\ canonical_tag = NoTag

InitRender ==
    /\ InitPlugin
    /\ InitDelete
    /\ render_in \in RenderConfigs
    /\ render_out = NotRendered
    /\ InitNoContainer

NextPlugin == \E i \in Instances : create(i) \/ modify_context(i)

NextDelete ==
    \/ \E t \in Threads : delete_uri_measure(t) \/ delete_uri_delete(t)
    \/ \E uri \in URIs, size \in Sizes : materialise(uri, size)

\* every URI's directory is on disk, of some size, and nothing materialises a
\* directory again: the threads race to delete what is there
InitRace ==
    /\ InitPlugin
    /\ fs \in [{get_local_dir_from_uri(uri, init_resources_dir(ResourcesDirArg[i])) :
                   uri \in URIs, i \in Instances} -> Sizes]
    /\ d_pc = [t \in Threads |-> "idle"]
    /\ d_dir = [t \in Threads |-> NoDir]
    /\ d_size = [t \in Threads |-> 0]
    /\ d_ret = [t \in Threads |-> 0]
    /\ d_pre = [t \in Threads |-> NoPre]
    /\ d_mode = [t \in Threads |-> "quiet"]
    /\ render_in = <<>>
    /\ render_out = NotRendered
    /\ InitNoContainer

NextRace == \E t \in Threads : delete_uri_measure(t) \/ delete_uri_delete(t)

NextRender == render

NextTags == call_get_image_tags \/ call_get_canonical_tag

\* one worker's setup: the host calls create, modify_context and delete_uri (on
\* any URI) on the worker's plugin instance, in any order, while the worker's
\* package is materialised
Worker == "p1"
WorkerThread == 1
WorkerURI == "pkg_a"

NextWorker ==
    \/ create(Worker)
    \/ modify_context(Worker)
    \/ delete_uri_measure(WorkerThread)
    \/ delete_uri_delete(WorkerThread)
    \/ \E size \in Sizes : materialise(WorkerURI, size)

\* The plugin's operations act on disjoint parts of the state: create and
\* modify_context on the instance and its context, delete_uri on the disk.
\* SpecPlugin and SpecDelete are Spec restricted to one part each; SpecWorker
\* is Spec restricted to one instance and one caller of delete_uri; SpecRender
\* applies the translator to every mapping of at most MaxOpts options.
Next == NextPlugin \/ NextDelete

Spec == Init /\ [][Next]_vars
SpecPlugin == Init /\ [][NextPlugin]_vars
SpecDelete == Init /\ [][NextDelete]_vars
SpecRender == InitRender /\ [][NextRender]_vars
SpecWorker == Init /\ [][NextWorker]_vars
SpecRace == InitRace /\ [][NextRace]_vars
SpecTags == InitTags /\ [][NextTags]_vars

-----------------------------------------------------------------------------
(* Claims about create and modify_context, under SpecPlugin *)

\* the value that follows the token key in a command
short_option_value(cmd, key) ==
    IF \E k \in 1..(Len(cmd) - 1) : cmd[k] = key
    THEN cmd[(CHOOSE k \in 1..(Len(cmd) - 1) : cmd[k] = key) + 1]
    ELSE ""

Created == create_result.status # "none"
Returned == create_result.status = "returned"
Raised == create_result.status = "raised"

\* C1: after a successful create on a mapping whose "-o" is v, the "-o" value of
\* the stored command is logs_dir + "/" + v.
C1_OutputAnchored ==
    (/\ Returned
     /\ create_result.config.kind = "dict"
     /\ dict_has(create_result.config.items, "-o"))
    => short_option_value(nsight_cmd[create_result.inst], "-o")
         = self_logs_dir[create_result.inst] \o "/"
             \o dict_get(create_result.config.items, "-o", "")

\* C2: a create whose configuration is absent or falsy returns 0 and leaves the
\* stored command empty, whatever ran on the instance before.
C2_FalsyCreateLeavesCommandEmpty ==
    (Created /\ ~truthy(create_result.config))
    => /\ Returned
       /\ create_result.ret = 0
       /\ nsight_cmd[create_result.inst] = <<>>

\* C3: modify_context on an empty stored command leaves the executable prefix
\* exactly "python".
C3_EmptyCommandKeepsInterpreter ==
    \A i \in Instances :
        (ctx_cmd[i].called /\ ctx_cmd[i].cmd = <<>>) => py_executable[i] = "python"

\* the translator failed: an unsupported string, or the tool was run and was
\* missing or rejected the options
TranslatorFailed(r) ==
    /\ truthy(r.config)
    /\ \/ r.config.kind = "str" /\ r.config.str # "default"
       \/ r.tool_calls = 1 /\ (~r.tool.found \/ r.tool.returncode # 0)

\* the step is the create call on i that create_result' records
CreateStep(i) ==
    /\ create_result'.inst = i
    /\ create_with(i, create_result'.config,
                   IF create_result'.tool_calls = 0 THEN ToolOk ELSE create_result'.tool)

\* C4: a create whose translator fails raises, never returns 0, and leaves the
\* stored commands and the execution contexts as they were before the call.
C4_FailedCreateLeavesNoState ==
    [][\A i \in Instances :
          (CreateStep(i) /\ TranslatorFailed(create_result'))
          => /\ create_result'.status = "raised"
             /\ create_result'.exc # ""
             /\ nsight_cmd' = nsight_cmd
             /\ py_executable' = py_executable]_vars

\* a failed create on an instance that holds a command and has written a context
C4_Witness ==
    /\ Raised
    /\ TranslatorFailed(create_result)
    /\ create_result.tool_calls = 1
    /\ nsight_cmd[create_result.inst] # <<>>
    /\ ctx_cmd[create_result.inst].called

\* C9, as stated: every string other than "default" makes create fail with the
\* unsupported-configuration error, before the tool is run.
C9_AnyOtherStringFails ==
    (/\ Created
     /\ create_result.config.kind = "str"
     /\ create_result.config.str # "default")
    => /\ Raised
       /\ create_result.exc = "RuntimeError"
       /\ Contains(create_result.msg,
                   "Unsupported nsight config: " \o create_result.config.str)
       /\ create_result.tool_calls = 0

\* C9, amended: every non-empty string other than "default" makes create fail
\* with the unsupported-configuration error, before the tool is run.
C9_NonEmptyOtherStringFails ==
    (/\ Created
     /\ create_result.config.kind = "str"
     /\ create_result.config.str # ""
     /\ create_result.config.str # "default")
    => /\ Raised
       /\ create_result.exc = "RuntimeError"
       /\ Contains(create_result.msg,
                   "Unsupported nsight config: " \o create_result.config.str)
       /\ create_result.tool_calls = 0

C9_Witness ==
    /\ create_result.config = EnvStr("garbage")
    /\ Raised
    /\ create_result.tool_calls = 0

\* the tool was run and exited with a non-zero code
ToolRejected(r) == r.tool_calls = 1 /\ r.tool.found /\ r.tool.returncode # 0

\* C10, as stated: when the tool exits non-zero, create raises with a message
\* that contains the captured error stream if it is non-empty, else the
\* captured standard output.
C10_MessageHasCapturedStream ==
    (Created /\ ToolRejected(create_result))
    => /\ Raised
       /\ Contains(create_result.msg,
                   IF create_result.tool.stderr # "" THEN create_result.tool.stderr
                   ELSE create_result.tool.stdout)

\* C10, amended: the message contains the error stream stripped of surrounding
\* whitespace if that is non-empty, else the stripped standard output.
C10_MessageHasStrippedStream ==
    (Created /\ ToolRejected(create_result))
    => /\ Raised
       /\ Contains(create_result.msg,
                   IF strip(create_result.tool.stderr) # ""
                   THEN strip(create_result.tool.stderr)
                   ELSE strip(create_result.tool.stdout))

C10_Witness ==
    /\ Raised
    /\ ToolRejected(create_result)
    /\ create_result.tool.stderr = "unknown option"
    /\ Contains(create_result.msg, "unknown option")

\* the tool was looked for and was not on the host
ToolNotFound(r) == r.tool_calls = 1 /\ ~r.tool.found

\* C11: a create that fails because the tool is not on the host raises an error
\* of another kind than a create that fails because the tool ran and rejected
\* the configuration (here: the failure that follows a rejection).
C11_MissingToolHasItsOwnKind ==
    [][\A i \in Instances :
          (/\ Raised
           /\ ToolRejected(create_result)
           /\ CreateStep(i)
           /\ create_result'.status = "raised"
           /\ ToolNotFound(create_result'))
          => create_result'.exc # create_result.exc]_vars

\* the tokens, each followed by one space
RECURSIVE EachThenSpace(_)
EachThenSpace(tokens) ==
    IF tokens = <<>> THEN ""
    ELSE Head(tokens) \o " " \o EachThenSpace(Tail(tokens))

\* C12: modify_context on a non-empty stored command C sets the executable
\* prefix of the instance's context to the tokens of C joined by single spaces,
\* one space and "python"; it changes nothing else (the stored commands, the
\* other contexts, the default mapping), so a second call writes the same prefix.
C12_ContextIsCommandThenInterpreter ==
    [][\A i \in Instances :
          (modify_context(i) /\ nsight_cmd[i] # <<>>)
          => /\ py_executable'[i] = EachThenSpace(nsight_cmd[i]) \o "python"
             /\ \A j \in Instances \ {i} : py_executable'[j] = py_executable[j]
             /\ nsight_cmd' = nsight_cmd
             /\ NSIGHT_DEFEAULT_CONFIG' = NSIGHT_DEFEAULT_CONFIG
             /\ self_resources_dir' = self_resources_dir
             /\ self_logs_dir' = self_logs_dir
             /\ py_executable'[i] = EachThenSpace(nsight_cmd'[i]) \o "python"]_vars

\* modify_context ran on the command a successful create stored
C12_Witness ==
    \E i \in Instances :
        /\ ctx_cmd[i].called
        /\ ctx_cmd[i].cmd = <<"nsys", "profile", "--cuda-stats=on", "-o", "run1">>
        /\ nsight_cmd[i] = ctx_cmd[i].cmd
        /\ py_executable[i] = "nsys profile --cuda-stats=on -o run1 python"

\* s ends with suffix
EndsWith(s, suffix) ==
    Len(suffix) <= Len(s) /\ SubSeq(s, Len(s) - Len(suffix) + 1, Len(s)) = suffix

HasToken(cmd, token) == \E k \in 1..Len(cmd) : cmd[k] = token

\* C13: with the tool installed and working, create with "default" returns 0
\* and stores a command that has every option of the built-in mapping: "-t"
\* followed by its built-in value, "-o" followed by a value that ends with the
\* built-in one, and the tokens "--cudabacktrace=all" and "--stop-on-exit=true".
C13_DefaultActivates ==
    (/\ Created
     /\ create_result.config = EnvStr("default")
     /\ create_result.tool = ToolOk)
    => /\ Returned
       /\ create_result.ret = 0
       /\ LET cmd == nsight_cmd[create_result.inst]
          IN /\ HasToken(cmd, "nsys")
             /\ short_option_value(cmd, "-t") = "cuda,cudnn,cublas,nvtx"
             /\ HasToken(cmd, "-o")
             /\ EndsWith(short_option_value(cmd, "-o"), "'worker_process_%p'")
             /\ HasToken(cmd, "--cudabacktrace=all")
             /\ HasToken(cmd, "--stop-on-exit=true")

\* "default" activated on an instance that held a user's command before
C13_Witness ==
    /\ Returned
    /\ create_result.config = EnvStr("default")
    /\ create_result.tool = ToolOk
    /\ create_result.tool_calls = 1
    /\ ctx_cmd[create_result.inst].called
    /\ ctx_cmd[create_result.inst].cmd =
          <<"nsys", "profile", "-t", "cuda", "-o", "'worker_process_%p'">>
    /\ Len(nsight_cmd[create_result.inst]) = 8

\* C17: the validation leaves the mapping it is given (with or without "-o")
\* as it was, keys, values and order, whether the tool accepts, rejects or is
\* missing: the command line it runs has the throwaway "-o" value, the mapping
\* does not get it, and after a failed validation the caller's configuration
\* and the default mapping are what they were before the call.
C17_ValidationWorksOnCopy ==
    [][\A i \in Instances :
          (CreateStep(i) /\ create_result'.tool_calls = 1)
          => LET before == IF create_result'.config = EnvStr("default")
                           THEN NSIGHT_DEFEAULT_CONFIG
                           ELSE create_result'.config.items
             IN /\ create_result'.validated = before
                /\ short_option_value(create_result'.argv, "-o") = "empty"
                /\ dict_get(before, "-o", "") # "empty"
                /\ create_result'.status = "raised"
                   => /\ runtime_env' = create_result'.config
                      /\ NSIGHT_DEFEAULT_CONFIG' = NSIGHT_DEFEAULT_CONFIG]_vars

\* a mapping without "-o" went through a validation that found no tool, and a
\* mapping with "-o" through one the tool rejected
C17_Witness ==
    /\ Raised
    /\ create_result.tool_calls = 1
    /\ \/ /\ ~create_result.tool.found
          /\ create_result.config = EnvDict(<< <<"-t", "cuda">> >>)
       \/ /\ create_result.tool.returncode # 0
          /\ create_result.config = EnvDict(<< <<"--cuda-stats", "on">>, <<"-o", "run1">> >>)
    /\ create_result.validated = create_result.config.items
    /\ runtime_env = create_result.config
    /\ short_option_value(create_result.argv, "-o") = "empty"

\* the command every activation of "default" stores
DefaultCommand ==
    <<"nsys", "profile", "-t", "cuda,cudnn,cublas,nvtx", "-o", "'worker_process_%p'",
      "--cudabacktrace=all", "--stop-on-exit=true">>

\* C18: whatever create calls ran, on whichever instances, the module-level
\* default mapping has its four built-in options with their built-in values in
\* their built-in order, and a successful create with "default" stores the same
\* command every time.
C18_DefaultMappingIsConstant ==
    /\ Len(NSIGHT_DEFEAULT_CONFIG) = 4
    /\ NSIGHT_DEFEAULT_CONFIG[1] = <<"-t", "cuda,cudnn,cublas,nvtx">>
    /\ NSIGHT_DEFEAULT_CONFIG[2] = <<"-o", "'worker_process_%p'">>
    /\ NSIGHT_DEFEAULT_CONFIG[3] = <<"--cudabacktrace", "all">>
    /\ NSIGHT_DEFEAULT_CONFIG[4] = <<"--stop-on-exit", "true">>
    /\ (Returned /\ create_result.config = EnvStr("default"))
       => nsight_cmd[create_result.inst] = DefaultCommand

\* "default" was activated on two instances, the second time after the first
\* instance's command was written to its context
C18_Witness ==
    \E i \in Instances :
        /\ Returned
        /\ create_result.config = EnvStr("default")
        /\ create_result.inst # i
        /\ ctx_cmd[i] = [called |-> TRUE, cmd |-> DefaultCommand]
        /\ nsight_cmd[create_result.inst] = DefaultCommand

-----------------------------------------------------------------------------
(* Claims about the whole lifecycle of an instance, under SpecWorker *)

\* the option names of a configuration mapping are never empty
KeysNonEmpty(env) == \A k \in 1..Len(env.items) : env.items[k][1] # ""

\* how often the claim has a create run the tool
ExpectedToolRuns(env) ==
    IF env.kind = "none" \/ env = EnvStr("") \/ env = EnvDict(<<>>) THEN 0
    ELSE IF env.kind = "str" THEN (IF env.str = "default" THEN 1 ELSE 0)
    ELSE 1

\* C14: a create call runs the validation tool at most once: once for "default"
\* or a mapping (of non-empty option names), never for an absent or falsy
\* configuration or an unsupported string; a run that fails makes the call
\* raise, with no second run; modify_context and delete_uri run nothing: they
\* leave the record of the last create and of its tool run as it was.
C14_NoRetries ==
    [][/\ create_result'.tool_calls <= 1
       /\ (create_result'.status # "none" /\ KeysNonEmpty(create_result'.config))
          => create_result'.tool_calls = ExpectedToolRuns(create_result'.config)
       /\ (ToolRejected(create_result') \/ ToolNotFound(create_result'))
          => create_result'.status = "raised"
       /\ (\/ \E i \in Instances : modify_context(i)
           \/ \E t \in Threads : delete_uri_measure(t) \/ delete_uri_delete(t))
          => create_result' = create_result]_vars

\* a create whose one tool run failed, then modify_context and a delete_uri
C14_Witness ==
    /\ Raised
    /\ ToolRejected(create_result)
    /\ create_result.tool_calls = 1
    /\ ctx_cmd[Worker].called
    /\ HasReturned(WorkerThread)
    /\ d_ret[WorkerThread] > 0

\* C16: no step of delete_uri, on a URI that exists or not, changes the stored
\* command, the resources directory or the logs directory of any instance, nor
\* any context: what modify_context would write is the same after the step as
\* before it.
C16_DeleteLeavesPluginState ==
    [][\A t \in Threads :
          (delete_uri_measure(t) \/ delete_uri_delete(t))
          => /\ nsight_cmd' = nsight_cmd
             /\ self_resources_dir' = self_resources_dir
             /\ self_logs_dir' = self_logs_dir
             /\ py_executable' = py_executable
             /\ \A i \in Instances :
                   context_prefix(nsight_cmd'[i]) = context_prefix(nsight_cmd[i])]_vars

\* delete_uri removed a directory on an instance that holds a command, and
\* modify_context wrote that command
C16_Witness ==
    /\ nsight_cmd[Worker] # <<>>
    /\ HasReturned(WorkerThread)
    /\ d_pre[WorkerThread].present
    /\ d_ret[WorkerThread] = MaxSize
    /\ ctx_cmd[Worker] = [called |-> TRUE, cmd |-> nsight_cmd[Worker]]
    /\ py_executable[Worker] = context_prefix(nsight_cmd[Worker])

-----------------------------------------------------------------------------
(* Claims about delete_uri, under SpecDelete *)

\* nothing else touched the call's directory while the call ran
Undisturbed(t) == d_mode[t] # "disturbed"

\* C5: a delete_uri that ran with nothing else touching its directory returns
\* the directory's size S if the directory existed when it was called, and 0
\* without raising if it did not (an earlier delete_uri removed it and nothing
\* materialised it again): called twice in a row it returns S, then 0.
C5_SizeThenZero ==
    \A t \in Threads :
        (HasReturned(t) /\ Undisturbed(t))
        => /\ d_pre[t].present => d_ret[t] = d_pre[t].size
           /\ ~d_pre[t].present => d_ret[t] = 0

\* two calls on one URI with nothing running beside them: one found the
\* directory and returned its size, the other found it gone and returned 0
C5_Witness ==
    \E t1, t2 \in Threads :
        /\ t1 # t2
        /\ HasReturned(t1) /\ HasReturned(t2)
        /\ d_mode[t1] = "quiet" /\ d_mode[t2] = "quiet"
        /\ d_dir[t1] = d_dir[t2]
        /\ d_pre[t1].present /\ d_ret[t1] = MaxSize
        /\ ~d_pre[t2].present /\ d_ret[t2] = 0
        /\ d_dir[t1].local_dir \notin DOMAIN fs

\* the directories other than path are the same on both disks
SameElsewhere(disk1, disk2, path) ==
    \A p \in ((DOMAIN disk1) \cup (DOMAIN disk2)) \ {path} :
        /\ p \in DOMAIN disk1
        /\ p \in DOMAIN disk2
        /\ disk1[p] = disk2[p]

\* C6: under every interleaving with calls on other URIs, the delete step of a
\* call removes nothing but its own directory, and the call returns the size
\* its directory had just before the deletion (0 if it was not there).
C6_DisjointCallsDoNotInterfere ==
    [][\A t \in Threads :
          delete_uri_delete(t)
          => /\ SameElsewhere(fs, fs', d_dir[t].local_dir)
             /\ d_dir[t].local_dir \notin DOMAIN fs'
             /\ Undisturbed(t) =>
                  d_ret'[t] = IF d_dir[t].local_dir \in DOMAIN fs
                              THEN fs[d_dir[t].local_dir] ELSE 0]_vars

\* two calls on different URIs that overlapped, each returned its own size
C6_Witness ==
    \E t1, t2 \in Threads :
        /\ HasReturned(t1) /\ HasReturned(t2)
        /\ d_dir[t1].local_dir # d_dir[t2].local_dir
        /\ d_mode[t1] = "beside" /\ d_mode[t2] = "beside"
        /\ d_pre[t1].present /\ d_pre[t2].present
        /\ d_ret[t1] = d_pre[t1].size /\ d_ret[t2] = d_pre[t2].size

\* C15: the delete step of a call comes after its measure step, and what was
\* measured is the size the directory had then; the call returns that
\* measurement when its delete step removes the directory, and 0 when the step
\* removes nothing, whatever was measured.
C15_ReturnsEarlierMeasurement ==
    [][\A t \in Threads :
          delete_uri_delete(t)
          => /\ InFlight(t)
             /\ d_size[t] = d_pre[t].size
             /\ IF d_dir[t].local_dir \in DOMAIN fs /\ d_dir[t].local_dir \notin DOMAIN fs'
                THEN d_ret'[t] = d_size[t]
                ELSE d_ret'[t] = 0 /\ fs' = fs]_vars

\* two calls measured the same directory before either deleted it: one returned
\* what it measured, the other measured as much and returned 0
C15_Witness ==
    \E t1, t2 \in Threads :
        /\ t1 # t2
        /\ HasReturned(t1) /\ HasReturned(t2)
        /\ d_dir[t1] = d_dir[t2]
        /\ d_size[t1] = MaxSize /\ d_size[t2] = MaxSize
        /\ d_ret[t1] = MaxSize
        /\ d_ret[t2] = 0

-----------------------------------------------------------------------------
(* Claims about racing delete_uri calls, under SpecRace *)

\* the calls on uri that have returned
ReturnedOn(uri) == {t \in Threads : HasReturned(t) /\ d_dir[t].uri = uri}

RECURSIVE BytesReturned(_)
BytesReturned(calls) ==
    IF calls = {} THEN 0
    ELSE LET t == CHOOSE c \in calls : TRUE
         IN d_ret[t] + BytesReturned(calls \ {t})

\* C19: of the delete_uri calls on one URI whose directory has size S, under
\* every interleaving of their measure and delete steps, at most one returns a
\* value other than 0, and the values returned add up to at most S.
C19_NoDoubleCount ==
    \A uri \in URIs :
        /\ Cardinality({t \in ReturnedOn(uri) : d_ret[t] # 0}) <= 1
        /\ \A t \in ReturnedOn(uri) :
              d_pre[t].present => BytesReturned(ReturnedOn(uri)) <= d_pre[t].size
        /\ (\A t \in ReturnedOn(uri) : ~d_pre[t].present)
              => BytesReturned(ReturnedOn(uri)) = 0

\* two calls on one URI overlapped, both measured the directory before either
\* deleted it; one returned the size and the other 0
C19_Witness ==
    \E t1, t2 \in Threads :
        /\ t1 # t2
        /\ HasReturned(t1) /\ HasReturned(t2)
        /\ d_dir[t1].uri = d_dir[t2].uri
        /\ d_mode[t1] = "disturbed" /\ d_mode[t2] = "disturbed"
        /\ d_pre[t1].present /\ d_pre[t2].present
        /\ d_size[t1] = d_size[t2]
        /\ d_ret[t1] = d_pre[t1].size
        /\ d_ret[t2] = 0
        /\ BytesReturned(ReturnedOn(d_dir[t1].uri)) = d_pre[t1].size

-----------------------------------------------------------------------------
(* Claims about parse_nsight_config, under SpecRender *)

Rendered == render_out # NotRendered

\* every key starts with "-"
AllDashed(d) == \A i \in 1..Len(d) : d[i][1] # "" /\ Head(d[i][1]) = "-"

IsLong(key) == Slice(key, 2) = "--"

\* number of tokens before the tokens of option i
RECURSIVE TokensBefore(_, _)
TokensBefore(d, i) ==
    IF i = 1 THEN 2
    ELSE TokensBefore(d, i - 1) + (IF IsLong(d[i - 1][1]) THEN 1 ELSE 2)

\* C7: the rendering is "nsys", "profile", then the options in insertion order,
\* a "--" key as the one token key=value and a "-" key as the two tokens key,
\* value.
C7_RenderedInOrder ==
    (Rendered /\ AllDashed(render_in))
    => /\ render_out.exc = ""
       /\ Len(render_out.value) = TokensBefore(render_in, Len(render_in) + 1)
       /\ render_out.value[1] = "nsys"
       /\ render_out.value[2] = "profile"
       /\ \A i \in 1..Len(render_in) :
             LET at == TokensBefore(render_in, i)
                 key == render_in[i][1]
                 val == render_in[i][2]
             IN IF IsLong(key)
                THEN render_out.value[at + 1] = key \o "=" \o val
                ELSE /\ render_out.value[at + 1] = key
                     /\ render_out.value[at + 2] = val

C7_Witness ==
    /\ render_in = << <<"--cuda-stats", "on">>, <<"-o", "run1">> >>
    /\ render_out.value = <<"nsys", "profile", "--cuda-stats=on", "-o", "run1">>

\* position of the first "=" of a token, 0 if it has none
RECURSIVE find_eq(_, _)
find_eq(s, i) ==
    IF i > Len(s) THEN 0
    ELSE IF SubSeq(s, i, i) = "=" THEN i
    ELSE find_eq(s, i + 1)

\* the (option, value) pairs read back from rendered option tokens
RECURSIVE reparse(_)
reparse(tokens) ==
    IF tokens = <<>> THEN {}
    ELSE LET tok == Head(tokens)
             eq == find_eq(tok, 1)
         IN IF IsLong(tok) /\ eq > 0
            THEN {<<SubSeq(tok, 1, eq - 1), SubSeq(tok, eq + 1, Len(tok))>>}
                    \cup reparse(Tail(tokens))
            ELSE IF Len(tokens) >= 2
            THEN {<<tok, tokens[2]>>} \cup reparse(Tail(Tail(tokens)))
            ELSE {<<tok, "">>}

\* C8: for every mapping the renderer accepts, re-parsing the rendered tokens
\* after the tool name and subcommand recovers exactly the pairs of the mapping.
C8_RoundTrip ==
    (Rendered /\ render_out.exc = "")
    => reparse(SubSeq(render_out.value, 3, Len(render_out.value)))
         = {render_in[i] : i \in 1..Len(render_in)}

-----------------------------------------------------------------------------
(* Claims about the image tags of DockerContainer, under SpecTags *)

\* the build runs on a release branch
OnReleaseBranch ==
    /\ "BUILDKITE_BRANCH" \in DOMAIN os_environ
    /\ Len(os_environ["BUILDKITE_BRANCH"]) >= 9
    /\ SubSeq(os_environ["BUILDKITE_BRANCH"], 1, 9) = "releases/"

\* the first six characters of the commit id
CommitSha == SubSeq(os_environ["BUILDKITE_COMMIT"], 1, 6)

\* the version part of the complete tag
CompleteVersion ==
    IF OnReleaseBranch
    THEN SubSeq(os_environ["BUILDKITE_BRANCH"], 10, Len(os_environ["BUILDKITE_BRANCH"]))
            \o "." \o CommitSha
    ELSE CommitSha

\* C20: for every python version, platform, image type and build environment
\* the list of image tags is not empty, and the canonical tag is its first
\* element, the unabbreviated <version>-<python_version>-<platform>, whose
\* version is the six-character sha of the commit, after "<release_name>." on
\* a releases/ branch.
C20_CanonicalTagIsComplete ==
    /\ image_tags.called
       => /\ Len(image_tags.value) >= 1
          /\ image_tags.value[1] =
                CompleteVersion \o "-" \o self_python_version \o "-" \o self_platform
    /\ canonical_tag.called
       => /\ canonical_tag.exc = ""
          /\ Len(CommitSha) = 6
          /\ canonical_tag.value =
                CompleteVersion \o "-" \o self_python_version \o "-" \o self_platform
    /\ (image_tags.called /\ canonical_tag.called)
       => canonical_tag.value = image_tags.value[1]

\* on a release branch, for the default python version on the gpu platform,
\* where the list has the abbreviated tags too
C20_Witness ==
    /\ canonical_tag.called
    /\ image_tags.called
    /\ canonical_tag.value = "2.7.0.a1b2c3-py38-cu118"
    /\ self_image_type = "ray-ml"
    /\ Len(image_tags.value) = 6
    /\ image_tags.value[6] = "2.7.0.a1b2c3"

====
